---- MODULE Spec2Model ----
(***************************************************************************)
(* A model of the imp typesetting prototype (tux21b/imp):                  *)
(*   - the line breaker Imp.SplitLines with GetWidth (src/main.go),        *)
(*   - the low level PDF writer (src/imp/pdf/pdf.go) and the order in      *)
(*     which main drives it (src/main.go),                                 *)
(*   - the cmap part of the font parser and Font.Index                     *)
(*     (src/unnamed/part_000, package font).                               *)
(* Positions in sequences are 1-based here and 0-based in the Go source:   *)
(* the Go index i is the index i+1 below, and breakPos = 0 stands for the  *)
(* Go value -1 ("no break found").                                         *)
(***************************************************************************)
EXTENDS Integers, Sequences, FiniteSets, TLC

(***************************************************************************)
(* Bounds of the model.                                                    *)
(***************************************************************************)
\* longest token vector handed to SplitLines
MaxTokens == 4

\* most operations a free run of the PDF writer calls
MaxOps == 3

\* most fonts main registers in imp.Fonts
MaxFonts == 2

\* most segments in a cmap subtable
MaxSegs == 2

\* longest token vector that is broken into lines and then emitted
MaxPageTokens == 5

\* most rules in a ligature, small caps or pair kerning table
MaxRules == 2

\* most glyphs of a font that some rune maps to
MaxMapped == 102

\* longest glyph slice handed to Ligatures, SmallCaps and Kerning
MaxGlyphs == 3

\* the records of a coverage table
MaxRanges == 2

\* the length of glyphs beyond which the expansion of a range is not
\* followed
MaxCoverage == 6

VARIABLES
    \* ---- line breaker (src/main.go) ----
    input,      \* the token vector as it was when SplitLines was called
    tokens,     \* SplitLines' local slice `tokens`
    origin,     \* history: origin[k] is the index in input that tokens[k]
                \* comes from, 0 for a spliced-in `before` token
    pos,        \* SplitLines' local `pos` (1-based)
    state,      \* SplitLines' rolling `state`
    impState,   \* m.State, the State the Imp owns
    caller,     \* what the caller's slice shows (same backing array while
                \* it is shared, the caller's length)
    spare,      \* cap - len of the local slice while it still shares the
                \* caller's backing array, -1 once append has reallocated
    page,       \* main's emission loop: the index it is at, inTJ,
                \* wordSpacing, updateSpacing and the content written to buf
    \* ---- PDF writer (src/imp/pdf/pdf.go) and main's use of it ----
    w,          \* the PDFWriter: pos, err, xref, and out, the bytes its
                \* bufio.Writer has accepted, as a sequence of chunks
    nops,       \* number of writer operations called so far
    firstOp,    \* history: the first operation called on the writer
    lastOp,     \* history: the last operation called on the writer
    build,      \* main's locals: the reserved ids, imp.Fonts, fontIds, i
    bf,         \* the locals of the bfchar loop of WriteFontEmbedded and
                \* the groups it has written to buf
    \* ---- font parser (package font) ----
    cmap,       \* the bytes of the font file's cmap subtable
    maxp,       \* the bytes of the font file's maxp table
    theFont,    \* the *Font that Parse returns: cm, cmapIndexes, nGlyph
    rune,       \* the rune last handed to Index
    glyph,      \* what Index returned for it
    gsub,       \* the font file's GSUB table
    gpos,       \* the font file's GPOS table
    feat,       \* the *Font's liga, smcpBefore, smcpAfter, kern, classKern
                \* and UnitsPerEm
    glyphs,     \* the glyph slice the caller holds
    shape,      \* history: the last call of Ligatures, SmallCaps or
                \* Kerning, its arguments and what it returned
    cov,        \* parseCoverage: the coverage table it reads and its
                \* locals i, g and glyphs
    pc          \* where the program is

splitVars == <<input, tokens, origin, pos, state, impState, caller, spare, page>>

pdfVars == <<w, nops, firstOp, lastOp, build, bf>>

shapeVars == <<gsub, gpos, feat, glyphs, shape, cov>>

fontVars == <<cmap, maxp, theFont, rune, glyph, shapeVars>>

(***************************************************************************)
(* Tokens (src/main.go:530-561).  A Text carries the name of a fixture     *)
(* string; a CanBreak carries its Before and NoBreak tokens (After is      *)
(* never read).  Nil is Go's nil Token.                                    *)
(***************************************************************************)
Nil == [type |-> "Nil"]

Text(x) == [type |-> "Text", s |-> x]

Space == [type |-> "Space"]

LineBreak == [type |-> "LineBreak"]

ParagraphBreak == [type |-> "ParagraphBreak"]

ColBreak == [type |-> "ColBreak"]

CanBreak(before, nobreak) ==
    [type |-> "CanBreak", Before |-> before, NoBreak |-> nobreak]

SetFont(font, size) == [type |-> "SetFont", Font |-> font, Size |-> size]

StateAction(name) == [type |-> "StateAction", a |-> name]

\* main's normalisation: a wrapped Space and a hyphenation point
SpaceBreak == CanBreak(Nil, Space)

HyphenBreak == CanBreak(Text("-"), Nil)

(***************************************************************************)
(* Widths are fixed-point numbers: one point is Pt units.  Pt is           *)
(* 8 * 25^4, so that units/1000*Size and the float product 0.48 * MaxWidth *)
(* of \column (12/25, up to four applications) are exact on the values     *)
(* used below.                                                             *)
(***************************************************************************)
Pt == 8 * 25 * 25 * 25 * 25

\* Font.Scale(HMetric(g).Width, 1000) summed over the shaped glyphs of a
\* fixture string, in thousandths of an em (kerning included); small caps
\* substitute wider glyphs for the lower case letters.
TextUnits(s, x) ==
    CASE x = "a" -> IF s.SmallCaps THEN 500 ELSE 400
      [] x = "-" -> 100
      [] OTHER -> 0

\* Scale(HMetric(Index(' ')).Width, 1000)
SpaceUnits == 200

\* the closures main builds for \smcpon, \smcpoff and \column
ApplyAction(a, s) ==
    CASE a = "smcpon" -> [s EXCEPT !.SmallCaps = TRUE]
      [] a = "smcpoff" -> [s EXCEPT !.SmallCaps = FALSE]
      [] a = "column" ->
            [s EXCEPT !.ColStart = s.YPos, !.MaxWidth = (12 * s.MaxWidth) \div 25]
      [] OTHER -> s

\* GetWidth(s, t): the width and the State it leaves behind (GetWidth
\* mutates *s for SetFont and StateAction).  units/1000 * Size points.
RECURSIVE GetWidth(_, _)
GetWidth(s, t) ==
    CASE t.type = "Text" ->
            [w |-> TextUnits(s, t.s) * s.Size * (Pt \div 1000), s |-> s]
      [] t.type = "CanBreak" -> GetWidth(s, t.NoBreak)
      [] t.type = "Space" ->
            [w |-> SpaceUnits * s.Size * (Pt \div 1000), s |-> s]
      [] t.type = "SetFont" ->
            [w |-> 0,
             s |-> [s EXCEPT !.Font = IF t.Font # "nil" THEN t.Font ELSE @,
                             !.Size = IF t.Size # 0 THEN t.Size ELSE @]]
      [] t.type = "StateAction" -> [w |-> 0, s |-> ApplyAction(t.a, s)]
      [] OTHER -> [w |-> 0, s |-> s]

\* the candidate test left out: every CanBreak the scan passes is recorded
AcceptsBreakUnchecked(width, beforeWidth, maxWidth) == TRUE

\* the look-ahead's test of a CanBreak as break candidate (main.go:93)
AcceptsBreak(width, beforeWidth, maxWidth) == width + beforeWidth < maxWidth

\* the look-ahead's overflow test (main.go:83)
Overflows(width, tw, maxWidth) == width + tw > maxWidth

\* The inner loop of SplitLines (main.go:79-97) from index i on, with the
\* accumulated width, the candidate so far and the look-ahead State s.
\* Yields the break position (0: none) and, for the history, the State
\* and width the look-ahead had when it recorded that position.
RECURSIVE LookAhead(_, _, _, _, _)
LookAhead(toks, i, width, best, s) ==
    IF i > Len(toks) THEN best
    ELSE LET tok == toks[i]
             s1 == IF tok.type = "StateAction" THEN ApplyAction(tok.a, s) ELSE s
             r == GetWidth(s1, tok)
         IN  IF Overflows(width, r.w, r.s.MaxWidth) THEN best
             ELSE LET width2 == width + r.w
                  IN  CASE tok.type \in {"LineBreak", "ParagraphBreak"} ->
                              [breakPos |-> i, s |-> r.s, width |-> width2,
                               stop |-> "explicit"]
                        [] tok.type = "CanBreak" ->
                              LET b == GetWidth(r.s, tok.Before)
                                  cand == IF AcceptsBreak(width2, b.w, b.s.MaxWidth)
                                          THEN [breakPos |-> i, s |-> b.s,
                                                width |-> width2 + b.w,
                                                stop |-> "canbreak"]
                                          ELSE best
                              IN  LookAhead(toks, i + 1, width2, cand, b.s)
                        [] OTHER -> LookAhead(toks, i + 1, width2, best, r.s)

NoBreakFound == [breakPos |-> 0, s |-> Nil, width |-> 0, stop |-> "none"]

\* the replay of the line on the rolling state (main.go:101-106)
RECURSIVE Replay(_, _, _, _)
Replay(toks, i, breakPos, s) ==
    IF i >= breakPos THEN s
    ELSE Replay(toks, i + 1, breakPos,
                IF toks[i].type = "StateAction"
                THEN ApplyAction(toks[i].a, s)
                ELSE GetWidth(s, toks[i]).s)

\* every CanBreak from the line start to the end of the vector demoted,
\* the chosen one excepted
RECURSIVE DemoteToEnd(_, _, _)
DemoteToEnd(toks, from, breakPos) ==
    IF from > Len(toks) THEN toks
    ELSE DemoteToEnd(IF toks[from].type = "CanBreak" /\ from # breakPos
                     THEN [toks EXCEPT ![from] = toks[from].NoBreak]
                     ELSE toks,
                     from + 1, breakPos)

\* tokens[i] = tok.NoBreak for every CanBreak of the line (main.go:107-109)
RECURSIVE Demote(_, _, _)
Demote(toks, from, breakPos) ==
    IF from >= breakPos THEN toks
    ELSE Demote(IF toks[from].type = "CanBreak"
                THEN [toks EXCEPT ![from] = toks[from].NoBreak]
                ELSE toks,
                from + 1, breakPos)

\* the type test of main.go:111 left out: whatever sits at breakPos is
\* overwritten
ReplacedAlways(tok) == TRUE

\* whether the token at breakPos is replaced by a LineBreak (main.go:111)
ReplacedByLineBreak(tok) == tok.type = "CanBreak"

\* the splice with Before put behind the LineBreak, at the head of the next
\* line
SpliceBehind(toks, breakPos) ==
    LET tok == toks[breakPos]
    IN  IF tok.type # "CanBreak" THEN [tokens |-> toks, breakPos |-> breakPos]
        ELSE IF tok.Before # Nil
        THEN [tokens |-> SubSeq(toks, 1, breakPos - 1)
                           \o <<LineBreak, tok.Before>>
                           \o SubSeq(toks, breakPos + 1, Len(toks)),
              breakPos |-> breakPos]
        ELSE [tokens |-> [toks EXCEPT ![breakPos] = LineBreak], breakPos |-> breakPos]

\* main.go:111-117 on the demoted vector: the splice of Before and the
\* overwrite with LineBreak; yields the vector and the new breakPos
Splice(toks, breakPos) ==
    LET tok == toks[breakPos]
        hasBefore == tok.type = "CanBreak" /\ tok.Before # Nil
    IN  IF ReplacedByLineBreak(tok)
        THEN IF hasBefore
             THEN [tokens |-> SubSeq(toks, 1, breakPos - 1)
                                \o <<tok.Before, LineBreak>>
                                \o SubSeq(toks, breakPos + 1, Len(toks)),
                   breakPos |-> breakPos + 1]
             ELSE [tokens |-> [toks EXCEPT ![breakPos] = LineBreak],
                   breakPos |-> breakPos]
        ELSE [tokens |-> toks, breakPos |-> breakPos]

\* the same splice on the history of origins
SpliceOrigin(org, toks, breakPos) ==
    IF toks[breakPos].type = "CanBreak" /\ toks[breakPos].Before # Nil
    THEN SubSeq(org, 1, breakPos - 1) \o <<0>> \o SubSeq(org, breakPos, Len(org))
    ELSE org

(***************************************************************************)
(* The call imp.SplitLines(tokens, 0) of main (main.go:274).               *)
(***************************************************************************)
\* the tokens main's normalisation pass produces (main.go:210-270)
Alphabet ==
    { Text("a"), SpaceBreak, HyphenBreak, LineBreak, ParagraphBreak,
      SetFont("nil", 24), StateAction("column"), StateAction("smcpon"), ColBreak }

\* imp.State.MaxWidth = pageB.Width.Computed (main.go:272): the page is
\* scaled down to 12 pt so that vectors of a few tokens overflow it
PageWidth == 12 * Pt

\* spare capacity (cap - len) of the caller's slice: Go's append growth
\* decides it, the program does not
SpareCaps == {0, 1}

\* the State literal of main (main.go:172-179) with MaxWidth set
InitialState(maxWidth) ==
    [Font |-> "fontNormal", Size |-> 12, SmallCaps |-> FALSE, Ligatures |-> TRUE,
     MaxWidth |-> maxWidth, YPos |-> 0, ColStart |-> 0]

RECURSIVE Iota(_)
Iota(n) == IF n = 0 THEN <<>> ELSE Append(Iota(n - 1), n)

RECURSIVE SeqsUpTo(_, _)
SeqsUpTo(S, n) ==
    IF n = 0 THEN {<<>>}
    ELSE LET shorter == SeqsUpTo(S, n - 1)
         IN  shorter \cup {Append(q, x) : q \in {r \in shorter : Len(r) = n - 1}, x \in S}

\* the caller's slice sees the first Len(input) cells of the shared array
View(toks, n) == SubSeq(toks, 1, n)

\* entry of SplitLines: pos := 0, state := m.State.Clone() (main.go:73-74)
InitSplit ==
    /\ input \in SeqsUpTo(Alphabet, MaxTokens)
    /\ tokens = input
    /\ origin = Iota(Len(input))
    /\ caller = input
    /\ spare \in SpareCaps
    /\ impState = InitialState(PageWidth)
    /\ state = impState
    /\ pos = 1
    /\ pc = "SplitLines"

\* no copy made: the rolling state is m.State itself, and what is done to
\* it is done to m.State
CloneShared(orig, used) == used

\* State.Clone (main.go:67-70) copies the struct: orig is what the State
\* cloned from holds once the clone has become `used`
Clone(orig, used) == orig

\* one pass of the outer loop that finds a break and commits the line
\* (main.go:75-118)
CommitLine ==
    /\ pc = "SplitLines"
    /\ pos <= Len(tokens)
    /\ LET la == LookAhead(tokens, pos, 0, NoBreakFound, state)
            bp == la.breakPos
       IN  /\ bp # 0
           /\ LET demoted == Demote(tokens, pos, bp)
                  sp == Splice(demoted, bp)
                  grows == Len(sp.tokens) > Len(tokens)
              IN  /\ tokens' = sp.tokens
                  /\ origin' = SpliceOrigin(origin, demoted, bp)
                  /\ state' = Replay(tokens, pos, bp, state)
                  /\ pos' = sp.breakPos + 1
                  /\ caller' = CASE spare < 0 -> caller
                                 [] grows /\ spare = 0 -> View(demoted, Len(input))
                                 [] OTHER -> View(sp.tokens, Len(input))
                  /\ spare' = CASE spare < 0 -> spare
                                [] grows /\ spare = 0 -> -1
                                [] grows -> spare - 1
                                [] OTHER -> spare
    /\ impState' = Clone(impState, state')
    /\ UNCHANGED <<input, page, pc, pdfVars, fontVars>>

\* the look-ahead found no break: return (main.go:98-100)
ReturnNoBreak ==
    /\ pc = "SplitLines"
    /\ pos <= Len(tokens)
    /\ LookAhead(tokens, pos, 0, NoBreakFound, state).breakPos = 0
    /\ pc' = "returned"
    /\ UNCHANGED <<splitVars, pdfVars, fontVars>>

\* pos reached len(tokens): the loop ends (main.go:75, 120)
ReturnAtEnd ==
    /\ pc = "SplitLines"
    /\ pos > Len(tokens)
    /\ pc' = "returned"
    /\ UNCHANGED <<splitVars, pdfVars, fontVars>>

NextSplit == CommitLine \/ ReturnNoBreak \/ ReturnAtEnd

(***************************************************************************)
(* The emission loop of main (main.go:296-398) over the vector main holds  *)
(* after SplitLines.  wordSpacing is kept as the fraction num/den of       *)
(* fixed-point widths; the content stream is a sequence of items.          *)
(***************************************************************************)
\* inTJ := false, wordSpacing := 0.0, updateSpacing := -1 (main.go:296-298);
\* U is updateSpacing as a 1-based index.  Fonts is imp.Fonts, empty in the
\* Imp literal (main.go:168-180); Tf lists the font selections written, each
\* with the resource number printed and imp.State.Font at that point, the
\* first being the "BT /F1 %.4f Tf" of main.go:292-293
NoPage ==
    [pos |-> 1, inTJ |-> FALSE, ws |-> [num |-> 0, den |-> 1], U |-> 0, out |-> <<>>,
     Fonts |-> <<>>, Tf |-> <<[id |-> 1, font |-> "fontNormal"]>>]

\* Imp.GetFontId (main.go:33-41): the number n of "/F<n>" and imp.Fonts
\* after the call
GetFontId(fonts, f) ==
    IF \E i \in 1..Len(fonts) : fonts[i] = f
    THEN [Fonts |-> fonts,
          id |-> CHOOSE i \in 1..Len(fonts) :
                    fonts[i] = f /\ \A j \in 1..(i - 1) : fonts[j] # f]
    ELSE [Fonts |-> Append(fonts, f), id |-> Len(fonts) + 1]

\* the scan of the line that starts at i (main.go:301-320): the spacing of
\* the line and where the next line starts
RECURSIVE ScanLine(_, _, _, _, _)
ScanLine(toks, i, width, numSpaces, s) ==
    IF i > Len(toks) THEN [ws |-> NoPage.ws, U |-> Len(toks) + 1]
    ELSE LET r == GetWidth(s, toks[i])
         IN  CASE toks[i].type = "LineBreak" ->
                    [ws |-> [num |-> r.s.MaxWidth - width, den |-> numSpaces], U |-> i + 1]
               [] toks[i].type = "ParagraphBreak" -> [ws |-> NoPage.ws, U |-> i + 1]
               [] toks[i].type = "Space" ->
                    ScanLine(toks, i + 1, width + r.w, numSpaces + 1, r.s)
               [] OTHER -> ScanLine(toks, i + 1, width + r.w, numSpaces, r.s)

\* wordSpacing > 0 (main.go:348); x/0 is +Inf for x > 0
SpacingIsPositive(ws) == ws.num > 0 /\ ws.den >= 0

\* the whole of what the line leaves over given to every Space
SpacingUnitsUndivided(ws, size) == ws.num \div (size * (Pt \div 1000))

\* int(wordSpacing/imp.State.Size*1000) (main.go:349): the conversion
\* truncates
SpacingUnits(ws, size) == ws.num \div (ws.den * size * (Pt \div 1000))

\* "[" unless a TJ array is open (main.go:324-327, 343-346)
OpenTJ(pg) == IF pg.inTJ THEN pg.out ELSE Append(pg.out, [k |-> "[", v |-> 0])

\* "] TJ\n" if a TJ array is open (main.go:352-355)
CloseTJ(pg) == IF pg.inTJ THEN Append(pg.out, [k |-> "] TJ", v |-> 0]) ELSE pg.out

\* the body of the loop for the token at pg.pos (main.go:322-393): the
\* items written and the State it leaves in imp.State
EmitOne(tok, pg, s) ==
    CASE tok.type = "Text" ->
            [out |-> Append(OpenTJ(pg), [k |-> "text", v |-> tok.s]), inTJ |-> TRUE, s |-> s]
      [] tok.type = "Space" ->
            [out |-> IF SpacingIsPositive(pg.ws)
                     THEN Append(Append(OpenTJ(pg), [k |-> "space", v |-> 0]),
                                 [k |-> "adjust", v |-> 0 - SpacingUnits(pg.ws, s.Size)])
                     ELSE Append(OpenTJ(pg), [k |-> "space", v |-> 0]),
             inTJ |-> TRUE, s |-> s]
      [] tok.type = "LineBreak" ->
            [out |-> Append(CloseTJ(pg), [k |-> "Td", v |-> 10]), inTJ |-> FALSE,
             s |-> [s EXCEPT !.YPos = @ - 14 * s.Size * (Pt \div 10)]]
      [] tok.type = "ParagraphBreak" ->
            [out |-> Append(CloseTJ(pg), [k |-> "Td", v |-> 18]), inTJ |-> FALSE,
             s |-> [s EXCEPT !.YPos = @ - 252 * s.Size * (Pt \div 100)]]
      [] tok.type = "ColBreak" ->
            [out |-> Append(CloseTJ(pg), [k |-> "Td", v |-> 0]), inTJ |-> FALSE,
             s |-> [s EXCEPT !.YPos = s.ColStart]]
      [] tok.type = "SetFont" ->
            LET s1 == GetWidth(s, tok).s
            IN  [out |-> Append(CloseTJ(pg), [k |-> "Tf", v |-> s1.Size]), inTJ |-> FALSE,
                 s |-> s1]
      [] tok.type = "StateAction" ->
            [out |-> pg.out, inTJ |-> pg.inTJ, s |-> ApplyAction(tok.a, s)]
      [] OTHER -> [out |-> pg.out, inTJ |-> pg.inTJ, s |-> s]

\* the natural width of a token vector: the widths GetWidth gives, summed
RECURSIVE NaturalWidth(_, _, _)
NaturalWidth(toks, i, s) ==
    IF i > Len(toks) THEN 0
    ELSE LET r == GetWidth(s, toks[i]) IN r.w + NaturalWidth(toks, i + 1, r.s)

\* one pass of the emission loop (main.go:299-393)
EmitToken ==
    /\ pc = "returned"
    /\ page.pos <= Len(caller)
    /\ LET sc == IF page.pos >= page.U
                 THEN ScanLine(caller, page.pos, 0, 0, impState)
                 ELSE [ws |-> page.ws, U |-> page.U]
           pg == [page EXCEPT !.ws = sc.ws, !.U = sc.U]
           e == EmitOne(caller[page.pos], pg, impState)
           g == GetFontId(page.Fonts, e.s.Font)
       IN  /\ page' = IF caller[page.pos].type = "SetFont"
                      THEN [pg EXCEPT !.pos = @ + 1, !.out = e.out, !.inTJ = e.inTJ,
                                      !.Fonts = g.Fonts,
                                      !.Tf = Append(@, [id |-> g.id, font |-> e.s.Font])]
                      ELSE [pg EXCEPT !.pos = @ + 1, !.out = e.out, !.inTJ = e.inTJ]
           /\ impState' = e.s
    /\ UNCHANGED <<input, tokens, origin, pos, state, caller, spare, pc, pdfVars, fontVars>>

\* the loop is over: the open TJ array is closed, then "ET" (main.go:395-398)
EmitEnd ==
    /\ pc = "returned"
    /\ page.pos > Len(caller)
    /\ page' = [page EXCEPT !.out = Append(CloseTJ(page), [k |-> "ET", v |-> 0]),
                            !.inTJ = FALSE]
    /\ pc' = "emitted"
    /\ UNCHANGED <<input, tokens, origin, pos, state, impState, caller, spare,
                   pdfVars, fontVars>>

NextJustify == CommitLine \/ ReturnNoBreak \/ ReturnAtEnd \/ EmitToken \/ EmitEnd

\* the font the Pages dictionary binds to "/F<id>": imp.Fonts[id - 1]
\* (main.go:420-425)
Resource(fonts, id) == IF id \in 1..Len(fonts) THEN fonts[id] ELSE "none"

(***************************************************************************)
(* Byte counts.  w.pos is a Go int (64 bits); a count is kept here as      *)
(* hi * 10^9 + lo so that offsets past 32 bits can be told apart.          *)
(***************************************************************************)
Base == 10 ^ 9

Big(n) == [hi |-> 0, lo |-> n]

BigAdd(a, b) ==
    [hi |-> a.hi + b.hi + ((a.lo + b.lo) \div Base), lo |-> (a.lo + b.lo) % Base]

BigLeq(a, b) == a.hi < b.hi \/ (a.hi = b.hi /\ a.lo <= b.lo)

\* the number of characters %d prints for n
RECURSIVE DecLen(_)
DecLen(n) ==
    IF n < 0 THEN 1 + DecLen(0 - n)
    ELSE IF n < 10 THEN 1 ELSE 1 + DecLen(n \div 10)

BigDecLen(a) == IF a.hi = 0 THEN DecLen(a.lo) ELSE DecLen(a.hi) + 9

\* the number of characters %010d prints: zero padded to at least 10
PaddedLen(a) == IF BigDecLen(a) < 10 THEN 10 ELSE BigDecLen(a)

(***************************************************************************)
(* The PDFWriter (pdf.go:23-110).  A chunk of out is what one write call   *)
(* hands to the sink: k names the text, id and val are the numbers printed *)
(* in it, n is its length in bytes, and at is where the sink puts it: the *)
(* number of bytes the sink has taken before it.                           *)
(***************************************************************************)
Chunk(k, id, val, n) == [k |-> k, id |-> id, val |-> val, n |-> n, at |-> Big(0)]

\* the number of bytes in the output
TotalLen(out) ==
    IF out = <<>> THEN Big(0) ELSE BigAdd(out[Len(out)].at, out[Len(out)].n)

\* the sink (the bufio.Writer) takes the chunk c after what it already has
Emit(out, c) == Append(out, [c EXCEPT !.at = TotalLen(out)])

\* NewPDFWriter (pdf.go:32-34)
NewPDFWriter == [pos |-> Big(0), err |-> FALSE, xref |-> <<>>, out |-> <<>>]

\* PDFWriter.Write (pdf.go:278-286), which fmt.Fprintf(w, ...) calls:
\* nothing once err is set, else n bytes go out and pos += n
Write(W, c) ==
    IF W.err THEN W
    ELSE [W EXCEPT !.out = Emit(@, c), !.pos = BigAdd(@, c.n)]

\* PDFWriter.WriteString (pdf.go:36-44)
WriteString(W, c) ==
    IF W.err THEN W
    ELSE [W EXCEPT !.out = Emit(@, c), !.pos = BigAdd(@, c.n)]

\* NextID that reserves an id and leaves one unused after it
NextIDSparse(W) == [W EXCEPT !.xref = Append(Append(@, Big(0)), Big(0))]

\* PDFWriter.NextID (pdf.go:78-81); the id it returns is Len of the new xref
NextID(W) == [W EXCEPT !.xref = Append(@, Big(0))]

\* the offset recorded after the header has gone out
XrefAfterHeader(W, id) == BigAdd(W.pos, Big(DecLen(id) + 7))

\* the offset WriteObjectStart records for id (pdf.go:61)
XrefEntry(W, id) == W.pos

\* PDFWriter.WriteObjectStart (pdf.go:57-64), for id <= Len(W.xref); yields
\* the writer in field W and the id in field id
WriteObjectStart(W, id) ==
    LET W1 == IF id <= 0 THEN NextID(W) ELSE W
        id1 == IF id <= 0 THEN Len(W1.xref) ELSE id
        W2 == [W1 EXCEPT !.xref[id1] = XrefEntry(W1, id1)]
    IN  [W |-> Write(W2, Chunk("obj", id1, 0, Big(DecLen(id1) + 7))), id |-> id1]

\* PDFWriter.WriteObjectEnd (pdf.go:66-68): "endobj\n"
WriteObjectEnd(W) == WriteString(W, Chunk("endobj", 0, 0, Big(7)))

\* PDFWriter.WriteObjectf (pdf.go:70-76) with a formatted body of n bytes
WriteObjectf(W, id, n) ==
    LET r == WriteObjectStart(W, id)
        W1 == Write(r.W, Chunk("body", r.id, 0, n))
        W2 == WriteString(W1, Chunk("nl", 0, 0, Big(1)))
    IN  [W |-> WriteObjectEnd(W2), id |-> r.id]

\* PDFWriter.WriteStreamPlain (pdf.go:46-55) for a string of n bytes
WriteStreamPlain(W, n) ==
    IF W.err THEN W
    ELSE LET W1 == Write(W, Chunk("length", 0, n, Big(15 + BigDecLen(n))))
             W2 == WriteString(W1, Chunk("stream", 0, 0, Big(7)))
             W3 == WriteString(W2, Chunk("data", 0, 0, n))
         IN  WriteString(W3, Chunk("endstream", 0, 0, Big(11)))

\* PDFWriter.WriteHeader (pdf.go:83-86): "%PDF-1.4\n", then a comment line
\* of four two-byte characters
WriteHeader(W) ==
    WriteString(WriteString(W, Chunk("%PDF-1.4", 0, 0, Big(9))),
                Chunk("%binary", 0, 0, Big(10)))

\* the "%010d 00000 n \n" lines of WriteFooter (pdf.go:91-93) for the
\* entries of xref from k on
RECURSIVE WriteXrefLines(_, _)
WriteXrefLines(W, k) ==
    IF k > Len(W.xref) THEN W
    ELSE WriteXrefLines(
            Write(W, Chunk("xrefline", k, W.xref[k], Big(PaddedLen(W.xref[k]) + 10))),
            k + 1)

\* startxref taken after the xref section has been written
StartXrefLate(W) == BigAdd(W.pos, Big(5))

\* startxref := w.pos (pdf.go:89)
StartXref(W) == W.pos

\* PDFWriter.WriteFooter (pdf.go:88-110).  The first Fprintf writes
\* "xref\n0 <n+1>\n" and the free entry "0000000000 65535 f \n" in one
\* call; they are two chunks here.  The md5 of the clock prints as 32 hex
\* digits, twice.
WriteFooter(W, root, info) ==
    LET startxref == StartXref(W)
        size == Len(W.xref) + 1
        W1 == Write(W, Chunk("xref", 0, Big(size), Big(8 + DecLen(size))))
        W2 == Write(W1, Chunk("xrefline", 0, Big(0), Big(20)))
        W3 == WriteXrefLines(W2, 1)
        W4 == WriteString(W3, Chunk("trailer", 0, 0, Big(8)))
        W5 == Write(W4, Chunk("trailerdict", 0, Big(size),
                              Big(119 + DecLen(size) + DecLen(info) + DecLen(root))))
        W6 == Write(W5, Chunk("startxref", 0, startxref, Big(11 + BigDecLen(startxref))))
    IN  WriteString(W6, Chunk("%%EOF", 0, 0, Big(6)))

(***************************************************************************)
(* Fonts as WriteFontEmbedded sees them: the glyph count, the largest      *)
(* Index(r) over the runes it maps, and the length of the font file.       *)
(***************************************************************************)
EmbedFont(numGlyphs, maxIndex, fileLen) ==
    [NumGlyphs |-> numGlyphs, MaxIndex |-> maxIndex, fileLen |-> fileLen]

\* the ids WriteFontEmbedded reserves itself (pdf.go:115-118)
FontReservesWrong == 4 + 1

FontReserves == 4

RECURSIVE Reserve(_, _)
Reserve(W, n) == IF n = 0 THEN W ELSE Reserve(NextID(W), n - 1)

\* PDFWriter.WriteFontEmbedded (pdf.go:112-253).  Yields the writer and
\* whether the call panicked: widths[0] with no glyphs (pdf.go:156), or
\* glyphs[f.Index(r)] past the glyph count (pdf.go:217).
WriteFontEmbedded(W, id, f) ==
    LET first == Len(W.xref)
        W0 == Reserve(W, FontReserves)
        fontDescedant == first + 1
        fontDescriptor == first + 2
        fontStream == first + 3
        fontUnicode == first + 4
        W1 == WriteObjectf(W0, id, Big(124 + DecLen(fontUnicode) + DecLen(fontDescedant))).W
    IN  IF f.NumGlyphs = 0 THEN [W |-> W1, panic |-> TRUE]
        ELSE LET W2 == WriteObjectf(W1, fontDescedant,
                                    Big(190 + 4 * f.NumGlyphs + DecLen(fontDescriptor))).W
                 W3 == WriteObjectf(W2, fontDescriptor, Big(230 + DecLen(fontStream))).W
                 W4 == WriteObjectStart(W3, fontStream).W
                 W5 == Write(W4, Chunk("length", 0, f.fileLen, Big(80 + 2 * BigDecLen(f.fileLen))))
                 W6 == Write(W5, Chunk("data", 0, 0, BigAdd(f.fileLen, Big(18))))
                 W7 == WriteObjectEnd(W6)
                 W8 == WriteObjectStart(W7, fontUnicode).W
             IN  IF f.MaxIndex >= f.NumGlyphs THEN [W |-> W8, panic |-> TRUE]
                 ELSE [W |-> WriteObjectEnd(WriteStreamPlain(W8, Big(260 + 14 * f.NumGlyphs))),
                       panic |-> FALSE]

\* PDFWriter.WriteImageJPEG (pdf.go:255-276) for n bytes of JPEG data
WriteImageJPEG(W, id, n) ==
    LET W1 == WriteObjectStart(W, id).W
        W2 == Write(W1, Chunk("data", 0, 0, BigAdd(n, Big(170))))
    IN  WriteObjectEnd(W2)

\* fonts handed to WriteFontEmbedded: two well-formed ones, one without
\* glyphs, and one whose cmap maps a rune past the glyph count
EmbedFonts ==
    { EmbedFont(3, 2, Big(40)), EmbedFont(4, 3, Big(52)),
      EmbedFont(0, 0, Big(40)), EmbedFont(3, 5, Big(40)) }

\* len(s) of the strings handed to WriteStreamPlain; the last is 10^10
StreamLens == {Big(7), [hi |-> 10, lo |-> 0]}

\* the length of a formatted object body, "<< /Title (Hallo Welt) >>"
BodyLen == Big(25)

NoBuild == [info |-> 0, root |-> 0, pages |-> 0, page |-> 0, contents |-> 0,
            imgId |-> 0, Fonts |-> <<>>, fontIds |-> <<>>, i |-> 0,
            contentLen |-> Big(0)]

\* WriteFontEmbedded is not in its bfchar loop
NoBf == [total |-> 0, section |-> 0, inside |-> FALSE, left |-> 0,
         announced |-> <<>>, groups |-> <<>>]

IdlePdf ==
    /\ w = NewPDFWriter
    /\ nops = 0
    /\ firstOp = "none"
    /\ lastOp = "none"
    /\ build = NoBuild
    /\ bf = NoBf

IdleSplit ==
    /\ input = <<>>
    /\ tokens = <<>>
    /\ origin = <<>>
    /\ caller = <<>>
    /\ spare = 0
    /\ impState = InitialState(PageWidth)
    /\ state = impState
    /\ pos = 1
    /\ page = NoPage

\* no font has been handed to Parse, no rune to Index
NoFont == [cm |-> <<>>, cmapIndexes |-> <<>>, nGlyph |-> 0]

NoRune == -1

NoGlyph == [panic |-> FALSE, v |-> -1]

\* a GSUB or GPOS table the font file does not have: f.tables[name] is nil
\* (features: the tags of the features the default language system lists)
NoGsub ==
    [len |-> 0, features |-> {}, liga |-> <<>>, smcpBefore |-> <<>>, smcpAfter |-> <<>>]

NoGpos == [len |-> 0, features |-> {}, kern |-> <<>>, classKern |-> [nil |-> TRUE]]

\* the feature fields of a Font before Parse has filled them
NoFeatures == [liga |-> <<>>, smcpBefore |-> <<>>, smcpAfter |-> <<>>,
               kern |-> <<>>, classKern |-> [nil |-> TRUE], UnitsPerEm |-> 0]

NoCall == [op |-> "none", prevOp |-> "none", n |-> 0, in |-> <<>>, out |-> <<>>,
           a |-> 0, b |-> 0, val |-> 0]

\* no coverage table has been handed to parseCoverage
NoCov == [format |-> 0, short |-> FALSE, ranges |-> <<>>, i |-> 0, g |-> 0, glyphs |-> <<>>]

IdleShape ==
    /\ gsub = NoGsub
    /\ gpos = NoGpos
    /\ feat = NoFeatures
    /\ glyphs = <<>>
    /\ shape = NoCall
    /\ cov = NoCov

IdleFont ==
    /\ cmap = <<>>
    /\ maxp = <<>>
    /\ theFont = NoFont
    /\ rune = NoRune
    /\ glyph = NoGlyph
    /\ IdleShape

(***************************************************************************)
(* Free runs of the writer: any operations in any order, up to MaxOps.     *)
(***************************************************************************)
InitWriter ==
    /\ IdleSplit
    /\ IdleFont
    /\ IdlePdf
    /\ pc = "writer"

\* the operation `name` is called and leaves the writer as W
Called(name, W) ==
    /\ pc = "writer"
    /\ nops < MaxOps
    /\ w' = W
    /\ nops' = nops + 1
    /\ firstOp' = IF nops = 0 THEN name ELSE firstOp
    /\ lastOp' = name
    /\ UNCHANGED <<build, bf, splitVars, fontVars>>

OpNextID == Called("NextID", NextID(w)) /\ UNCHANGED pc

OpWriteHeader == Called("WriteHeader", WriteHeader(w)) /\ UNCHANGED pc

OpWriteObjectStart ==
    /\ \E id \in 0..Len(w.xref) : Called("WriteObjectStart", WriteObjectStart(w, id).W)
    /\ UNCHANGED pc

\* w.xref[id-1] with id past the reserved ids: index out of range
OpWriteObjectStartPanics ==
    /\ Called("WriteObjectStart", w)
    /\ pc' = "panic"

OpWriteObjectEnd == Called("WriteObjectEnd", WriteObjectEnd(w)) /\ UNCHANGED pc

OpWriteObjectf ==
    /\ \E id \in 0..Len(w.xref) : Called("WriteObjectf", WriteObjectf(w, id, BodyLen).W)
    /\ UNCHANGED pc

OpWriteStreamPlain ==
    /\ \E n \in StreamLens : Called("WriteStreamPlain", WriteStreamPlain(w, n))
    /\ UNCHANGED pc

OpWriteFooter == Called("WriteFooter", WriteFooter(w, 2, 1)) /\ UNCHANGED pc

OpWriteFontEmbedded ==
    \E id \in 1..Len(w.xref), f \in EmbedFonts :
        LET r == WriteFontEmbedded(w, id, f)
        IN  /\ Called("WriteFontEmbedded", r.W)
            /\ pc' = IF r.panic THEN "panic" ELSE pc

OpWriteImageJPEG ==
    /\ \E id \in 0..Len(w.xref) : Called("WriteImageJPEG", WriteImageJPEG(w, id, Big(7)))
    /\ UNCHANGED pc

\* the sink starts to fail: bufio keeps the error and so does w.err at the
\* next write; every later write is dropped
SinkFails ==
    /\ pc \notin {"panic", "done", "SplitLines", "returned"}
    /\ ~w.err
    /\ w' = [w EXCEPT !.err = TRUE]
    /\ UNCHANGED <<nops, firstOp, lastOp, build, bf, pc, splitVars, fontVars>>

NextWriter ==
    \/ OpNextID \/ OpWriteHeader \/ OpWriteObjectStart \/ OpWriteObjectStartPanics
    \/ OpWriteObjectEnd \/ OpWriteObjectf \/ OpWriteStreamPlain \/ OpWriteFooter
    \/ OpWriteFontEmbedded \/ OpWriteImageJPEG \/ SinkFails

(***************************************************************************)
(* The document build of main (main.go:188-198, 276-283, 416-445).         *)
(***************************************************************************)
HasRepeat(q) == \E a, b \in 1..Len(q) : a # b /\ q[a] = q[b]

\* w := pdf.NewPDFWriter(out) (main.go:188); imp.Fonts is what the
\* emission loop registered with GetFontId: distinct fonts
InitBuild ==
    /\ IdleSplit
    /\ IdleFont
    /\ w = NewPDFWriter
    /\ nops = 0
    /\ firstOp = "none"
    /\ lastOp = "none"
    /\ bf = NoBf
    /\ \E fs \in SeqsUpTo(EmbedFonts, MaxFonts), n \in StreamLens :
          /\ ~HasRepeat(fs)
          /\ build = [NoBuild EXCEPT !.Fonts = fs, !.contentLen = n]
    /\ pc = "WriteHeader"

Step(from, to, W) ==
    /\ pc = from
    /\ pc' = to
    /\ w' = W
    /\ UNCHANGED <<nops, firstOp, lastOp, bf, splitVars, fontVars>>

\* main.go:189
BuildHeader == Step("WriteHeader", "ReserveIds", WriteHeader(w)) /\ UNCHANGED build

\* main.go:191-198: six calls of NextID
BuildReserveIds ==
    /\ Step("ReserveIds", "WriteInfo", Reserve(w, 6))
    /\ build' = [build EXCEPT !.info = Len(w.xref) + 1, !.root = Len(w.xref) + 2,
                              !.pages = Len(w.xref) + 3, !.page = Len(w.xref) + 4,
                              !.contents = Len(w.xref) + 5, !.imgId = Len(w.xref) + 6]

\* main.go:276
BuildInfo ==
    Step("WriteInfo", "WriteRoot", WriteObjectf(w, build.info, BodyLen).W) /\ UNCHANGED build

\* main.go:277
BuildRoot ==
    /\ Step("WriteRoot", "WritePage",
            WriteObjectf(w, build.root, Big(32 + DecLen(build.pages))).W)
    /\ UNCHANGED build

\* main.go:279-283
BuildPage ==
    /\ Step("WritePage", "WriteContents",
            WriteObjectf(w, build.page,
                         Big(56 + DecLen(build.pages) + DecLen(build.contents))).W)
    /\ UNCHANGED build

\* main.go:416-418
BuildContents ==
    /\ Step("WriteContents", "ReserveFontIds",
            WriteObjectEnd(WriteStreamPlain(WriteObjectStart(w, build.contents).W,
                                            build.contentLen)))
    /\ UNCHANGED build

\* main.go:422-425, one pass of the loop
BuildReserveFontId ==
    /\ pc = "ReserveFontIds"
    /\ Len(build.fontIds) < Len(build.Fonts)
    /\ w' = NextID(w)
    /\ build' = [build EXCEPT !.fontIds = Append(@, Len(w.xref) + 1)]
    /\ UNCHANGED <<nops, firstOp, lastOp, bf, pc, splitVars, fontVars>>

\* main.go:426-438, once the loop is through
BuildPages ==
    /\ Len(build.fontIds) = Len(build.Fonts)
    /\ Step("ReserveFontIds", "EmbedFonts",
            WriteObjectf(w, build.pages, Big(200 + 12 * Len(build.Fonts))).W)
    /\ build' = [build EXCEPT !.i = 1]

\* main.go:440-442, one pass of the loop; a panic ends the program
BuildEmbedFont ==
    /\ pc = "EmbedFonts"
    /\ build.i <= Len(build.Fonts)
    /\ LET r == WriteFontEmbedded(w, build.fontIds[build.i], build.Fonts[build.i])
       IN  /\ w' = r.W
           /\ pc' = IF r.panic THEN "panic" ELSE pc
    /\ build' = [build EXCEPT !.i = @ + 1]
    /\ UNCHANGED <<nops, firstOp, lastOp, bf, splitVars, fontVars>>

\* main.go:443
BuildImage ==
    /\ build.i > Len(build.Fonts)
    /\ Step("EmbedFonts", "WriteFooter", WriteImageJPEG(w, build.imgId, Big(7)))
    /\ UNCHANGED build

\* main.go:445
BuildFooter ==
    /\ Step("WriteFooter", "done", WriteFooter(w, build.root, build.info))
    /\ UNCHANGED build

NextBuild ==
    \/ BuildHeader \/ BuildReserveIds \/ BuildInfo \/ BuildRoot \/ BuildPage
    \/ BuildContents \/ BuildReserveFontId \/ BuildPages \/ BuildEmbedFont
    \/ BuildImage \/ BuildFooter \/ SinkFails

(***************************************************************************)
(* Package font: the format 4 cmap subtable, maxp, and Index.  Tables are  *)
(* byte sequences, read big-endian as the code reads them.                 *)
(***************************************************************************)
\* u16(b, i) indexes b[i] and b[i+1]: both must exist, or Go panics
u16Ok(b, i) == 0 <= i /\ i + 1 < Len(b)

\* u16 (part_000:1039-1041)
u16(b, i) == b[i + 1] * 256 + b[i + 2]

\* the big-endian bytes of a sequence of 16-bit words, as a font file
\* stores them
RECURSIVE Bytes(_)
Bytes(ws) ==
    IF ws = <<>> THEN <<>>
    ELSE <<ws[1] \div 256, ws[1] % 256>> \o Bytes(Tail(ws))

Accepted(f) == [panic |-> FALSE, err |-> FALSE, f |-> f]

Rejected == [panic |-> FALSE, err |-> TRUE, f |-> NoFont]

Panicked == [panic |-> TRUE, err |-> FALSE, f |-> NoFont]

\* the four loops of parseCmap (part_000:769-784): segment i takes its
\* end, start, delta and offset from the four parallel arrays
RECURSIVE ReadSegments(_, _, _)
ReadSegments(b, segCount, i) ==
    IF i = segCount THEN <<>>
    ELSE <<[end    |-> u16(b, 14 + 2 * i),
            start  |-> u16(b, 16 + 2 * segCount + 2 * i),
            delta  |-> u16(b, 16 + 4 * segCount + 2 * i),
            offset |-> u16(b, 16 + 6 * segCount + 2 * i)]>>
         \o ReadSegments(b, segCount, i + 1)

\* parseCmap from the chosen subtable on (part_000:757-792); b is the cmap
\* table from the subtable's first byte
parseCmap(b) ==
    IF ~u16Ok(b, 0) THEN Panicked
    ELSE IF u16(b, 0) # 4 THEN Rejected
    ELSE IF ~u16Ok(b, 4) THEN Panicked
    ELSE IF u16(b, 4) # 0 THEN Rejected
    ELSE IF ~u16Ok(b, 6) THEN Panicked
    ELSE IF u16(b, 6) % 2 = 1 THEN Rejected
    ELSE LET segCount == u16(b, 6) \div 2
             tail == 16 + 8 * segCount
         IN  IF tail > Len(b) THEN Panicked
             ELSE Accepted([cm |-> ReadSegments(b, segCount, 0),
                            cmapIndexes |-> SubSeq(b, tail + 1, Len(b)),
                            nGlyph |-> 0])

\* parseMaxp (part_000:818-824)
parseMaxp(m, f) ==
    IF Len(m) < 6 THEN Rejected
    ELSE Accepted([f EXCEPT !.nGlyph = u16(m, 4)])

\* Parse (part_000:62-136), the cmap and maxp steps of it
ParseFont(c, m) ==
    LET r == parseCmap(c)
    IN  IF r.panic \/ r.err THEN r ELSE parseMaxp(m, r.f)

\* NumGlyphs (part_000:852-854)
NumGlyphs(f) == f.nGlyph

Returned(v) == [panic |-> FALSE, v |-> v]

IndexPanics == [panic |-> TRUE, v |-> -1]

\* a search step that also passes over a segment ending at c
EndsBelowOrAt(seg, c) == seg.end <= c

\* cm.end < c (part_000:907)
EndsBelow(seg, c) == seg.end < c

\* the loop of Index (part_000:902-915) from the bounds i, j on
RECURSIVE Search(_, _, _, _)
Search(f, c, i, j) ==
    IF ~(i < j) THEN Returned(0)
    ELSE LET h == i + (j - i) \div 2
             seg == f.cm[h + 1]
         IN  IF c < seg.start THEN Search(f, c, i, h)
             ELSE IF EndsBelow(seg, c) THEN Search(f, c, h + 1, j)
             ELSE IF seg.offset = 0 THEN Returned((c + seg.delta) % 65536)
             ELSE LET offset == seg.offset + 2 * (h - Len(f.cm) + (c - seg.start))
                  IN  IF u16Ok(f.cmapIndexes, offset)
                      THEN Returned(u16(f.cmapIndexes, offset))
                      ELSE IndexPanics

\* Font.Index (part_000:900-917) for a rune r >= 0, where uint32(r) = r
Index(f, r) == Search(f, r, 0, Len(f.cm))

\* ---- the fonts and runes tried ----
Codes == {2, 4, 65535}

SegmentKinds ==
    { [delta |-> 0, offset |-> 0], [delta |-> 65534, offset |-> 0],
      [delta |-> 0, offset |-> 4] }

Segments ==
    { [start |-> a, end |-> b, delta |-> k.delta, offset |-> k.offset] :
        a \in Codes, b \in Codes, k \in SegmentKinds }

GlyphIdArray == <<7, 1>>

RECURSIVE Column(_, _)
Column(segs, field) ==
    IF segs = <<>> THEN <<>> ELSE <<segs[1][field]>> \o Column(Tail(segs), field)

\* a format 4 subtable: format, length, language, segCountX2, searchRange,
\* entrySelector, rangeShift, endCode[], reservedPad, startCode[],
\* idDelta[], idRangeOffset[], glyphIdArray[]
Subtable(format, language, segCountX2, segs) ==
    Bytes(<<format, 0, language, segCountX2, 0, 0, 0>>
          \o Column(segs, "end") \o <<0>> \o Column(segs, "start")
          \o Column(segs, "delta") \o Column(segs, "offset") \o GlyphIdArray)

\* a maxp table: version (4 bytes), numGlyphs
Maxp(numGlyphs) == Bytes(<<1, 0, numGlyphs>>)

OneSegment == <<[start |-> 2, end |-> 4, delta |-> 0, offset |-> 0]>>

\* subtables parseCmap does not get through: an unsupported format, a
\* language, an odd segCountX2, a segCountX2 past the data, two bytes only
BrokenSubtables ==
    { Subtable(12, 0, 2, OneSegment), Subtable(4, 1, 2, OneSegment),
      Subtable(4, 0, 3, OneSegment), Subtable(4, 0, 8, OneSegment),
      Bytes(<<4>>) }

FontFiles ==
    { <<Subtable(4, 0, 2 * Len(segs), segs), Maxp(n)>> :
        segs \in SeqsUpTo(Segments, MaxSegs), n \in {3, 9} }
    \cup { <<b, Maxp(3)>> : b \in BrokenSubtables }
    \cup { <<Subtable(4, 0, 2, OneSegment), <<>>>> }

Runes == {0, 2, 3, 4, 65535, 65536}

InitCmap ==
    /\ IdleSplit
    /\ IdlePdf
    /\ \E file \in FontFiles : cmap = file[1] /\ maxp = file[2]
    /\ theFont = NoFont
    /\ rune = NoRune
    /\ glyph = NoGlyph
    /\ IdleShape
    /\ pc = "Parse"

\* font.Parse(data)
Parse ==
    /\ pc = "Parse"
    /\ LET r == ParseFont(cmap, maxp)
       IN  /\ theFont' = r.f
           /\ pc' = CASE r.panic -> "panic" [] r.err -> "error" [] OTHER -> "parsed"
    /\ UNCHANGED <<cmap, maxp, rune, glyph, shapeVars, splitVars, pdfVars>>

\* f.Index(r) on the parsed font
CallIndex ==
    /\ pc = "parsed"
    /\ \E r \in Runes :
          /\ rune' = r
          /\ glyph' = Index(theFont, r)
          /\ pc' = IF Index(theFont, r).panic THEN "panic" ELSE pc
    /\ UNCHANGED <<cmap, maxp, theFont, shapeVars, splitVars, pdfVars>>

NextCmap == Parse \/ CallIndex


(***************************************************************************)
(* Package font: the GSUB and GPOS features.  A table is given by its      *)
(* length and by the rules its lookups decode to; the walk through script, *)
(* feature and lookup lists (part_000:229-311, 340-393, 452-573) is not    *)
(* followed byte by byte.                                                  *)
(***************************************************************************)
\* parseFeatureTable (part_000:684-696): whether one of the features of the
\* language system has the tag wanted; "feature %q not found" if none has
parseFeatureTable(t, feature) == feature \in t.features

\* parseGsub (part_000:214-313): an absent table is no error and leaves
\* f.liga empty, a table under 10 bytes is an error
parseGsub(t, f) ==
    IF t.len = 0 THEN Accepted(f)
    ELSE IF t.len < 10 THEN Rejected
    ELSE IF ~parseFeatureTable(t, "liga") THEN Rejected
    ELSE Accepted([f EXCEPT !.liga = t.liga])

\* parseGsubSmcp (part_000:315-394): the error of parseFeatureTable is
\* answered with `return nil` (part_000:336-339)
parseGsubSmcp(t, f) ==
    IF t.len = 0 THEN Accepted(f)
    ELSE IF t.len < 10 THEN Rejected
    ELSE IF ~parseFeatureTable(t, "smcp") THEN Accepted(f)
    ELSE Accepted([f EXCEPT !.smcpBefore = t.smcpBefore, !.smcpAfter = t.smcpAfter])

\* parseGpos that wants the 10 byte header of every table
parseGposRequired(t, f) ==
    IF t.len < 10 THEN Rejected
    ELSE IF ~parseFeatureTable(t, "kern") THEN Rejected
    ELSE Accepted([f EXCEPT !.kern = t.kern, !.classKern = t.classKern])

\* parseGpos (part_000:444-574)
parseGpos(t, f) ==
    IF t.len = 0 THEN Accepted(f)
    ELSE IF t.len < 10 THEN Rejected
    ELSE IF ~parseFeatureTable(t, "kern") THEN Rejected
    ELSE Accepted([f EXCEPT !.kern = t.kern, !.classKern = t.classKern])

\* the last three steps of Parse (part_000:126-134)
ParseFeatureTables(gs, gp, f) ==
    LET r1 == parseGsub(gs, f)
    IN  IF r1.err THEN r1
        ELSE LET r2 == parseGsubSmcp(gs, r1.f)
             IN  IF r2.err THEN r2 ELSE parseGpos(gp, r2.f)

\* whether liga.Old is found in g at the 1-based position i
\* (part_000:925-935)
LigaMatches(rule, g, i) ==
    /\ i + Len(rule.Old) - 1 <= Len(g)
    /\ \A k \in 1..Len(rule.Old) : rule.Old[k] = g[i + k - 1]

\* the first rule from r on that is found at i, 0 if there is none
RECURSIVE FirstLiga(_, _, _, _)
FirstLiga(liga, g, i, r) ==
    IF r > Len(liga) THEN 0
    ELSE IF LigaMatches(liga[r], g, i) THEN r
    ELSE FirstLiga(liga, g, i, r + 1)

\* the outer loop of Ligatures from position i on (part_000:923-942)
RECURSIVE LigaturesFrom(_, _, _)
LigaturesFrom(liga, g, i) ==
    IF i > Len(g) THEN g
    ELSE LET r == FirstLiga(liga, g, i, 1)
         IN  IF r = 0 THEN LigaturesFrom(liga, g, i + 1)
             ELSE LigaturesFrom(liga,
                                SubSeq(g, 1, i - 1) \o <<liga[r].New>>
                                    \o SubSeq(g, i + Len(liga[r].Old), Len(g)),
                                i + 1)

\* Font.Ligatures (part_000:919-944)
Ligatures(f, g) == IF Len(f.liga) = 0 THEN g ELSE LigaturesFrom(f.liga, g, 1)

\* the inner loop of SmallCaps for one glyph, from entry j on
\* (part_000:401-405): every entry is compared with the glyph as it is by then
RECURSIVE SmallCapsGlyph(_, _, _, _)
SmallCapsGlyph(before, after, g, j) ==
    IF j > Len(before) THEN g
    ELSE SmallCapsGlyph(before, after, IF before[j] = g THEN after[j] ELSE g, j + 1)

RECURSIVE SmallCapsFrom(_, _, _)
SmallCapsFrom(f, g, i) ==
    IF i > Len(g) THEN <<>>
    ELSE <<SmallCapsGlyph(f.smcpBefore, f.smcpAfter, g[i], 1)>> \o SmallCapsFrom(f, g, i + 1)

\* Font.SmallCaps (part_000:396-408); a nil smcpBefore is the empty one
SmallCaps(f, g) == IF f.smcpBefore = <<>> THEN g ELSE SmallCapsFrom(f, g, 1)

\* Go's integer division, which truncates toward zero
GoDiv(a, b) == IF a >= 0 THEN a \div b ELSE 0 - ((0 - a) \div b)

\* Font.Scale (part_000:835-837)
Scale(f, value, scale) == GoDiv(value * scale, f.UnitsPerEm)

\* the loop of Kerning over f.kern from entry i on (part_000:841-845)
RECURSIVE PairKern(_, _, _, _)
PairKern(kern, a, b, i) ==
    IF i > Len(kern) THEN 0
    ELSE (IF kern[i].First = a /\ kern[i].Second = b THEN kern[i].Horiz ELSE 0)
         + PairKern(kern, a, b, i + 1)

\* a class table read by rows of the first class
ClassIndexByRow(c, a, b) == c.classA[a + 1] * c.countB + c.classB[b + 1]

\* int(c.classA[a]) + int(c.classB[b])*c.countA (part_000:1011)
ClassIndex(c, a, b) == c.classA[a + 1] + c.classB[b + 1] * c.countA

\* classKerner.Kern (part_000:1007-1012)
Kern(c, a, b) ==
    IF a >= Len(c.classA) \/ b >= Len(c.classB) THEN 0
    ELSE c.table[ClassIndex(c, a, b) + 1]

\* Font.Kerning (part_000:839-850)
Kerning(f, scale, a, b) ==
    LET pair == PairKern(f.kern, a, b, 1)
        class == IF f.classKern.nil THEN 0 ELSE Kern(f.classKern, a, b)
    IN  Scale(f, pair + class, scale)

\* ---- the fonts and glyph slices tried ----
Glyphs == {1, 2, 3}

LigaRules == {[Old |-> o, New |-> n] : o \in {<<1, 1>>, <<2, 1>>}, n \in {2, 3}}

SmcpPairs == {<<1, 2>>, <<2, 3>>, <<2, 1>>, <<3, 3>>}

KernPairs ==
    { [First |-> 1, Second |-> 2, Horiz |-> -50], [First |-> 1, Second |-> 2, Horiz |-> 30],
      [First |-> 2, Second |-> 1, Horiz |-> -50], [First |-> 1, Second |-> 1, Horiz |-> 30] }

\* class arrays over the glyphs 0..2 of a font with three glyphs, two first
\* classes and three second classes
ClassTable ==
    [nil |-> FALSE, classA |-> <<0, 1, 1>>, classB |-> <<0, 2, 1>>,
     table |-> <<0, -21, 11, -7, 40, 3>>, countA |-> 2, countB |-> 3]

RECURSIVE Firsts(_)
Firsts(ps) == IF ps = <<>> THEN <<>> ELSE <<ps[1][1]>> \o Firsts(Tail(ps))

RECURSIVE Seconds(_)
Seconds(ps) == IF ps = <<>> THEN <<>> ELSE <<ps[1][2]>> \o Seconds(Tail(ps))

\* GSUB, GPOS and head.unitsPerEm of the font files tried: tables with
\* rules, tables too short to hold their header, and well-formed tables
\* whose language system does not list liga, smcp or kern
FeatureFiles ==
    { <<[NoGsub EXCEPT !.len = 64, !.features = {"liga"}, !.liga = t], NoGpos, 1000>> :
        t \in SeqsUpTo(LigaRules, MaxRules) }
    \cup { <<[NoGsub EXCEPT !.len = 64, !.features = {"liga", "smcp"},
                            !.smcpBefore = Firsts(ps), !.smcpAfter = Seconds(ps)],
             NoGpos, 1000>> : ps \in SeqsUpTo(SmcpPairs, MaxRules) }
    \cup { <<NoGsub, [NoGpos EXCEPT !.len = 64, !.features = {"kern"}, !.kern = k], 1000>> :
             k \in SeqsUpTo(KernPairs, MaxRules) }
    \cup { <<NoGsub, [NoGpos EXCEPT !.len = 64, !.features = {"kern"}, !.kern = k,
                                    !.classKern = ClassTable], 2048>> :
             k \in SeqsUpTo(KernPairs, MaxRules) }
    \cup { <<NoGsub, NoGpos, 1000>>, <<[NoGsub EXCEPT !.len = 4], NoGpos, 1000>>,
             <<NoGsub, [NoGpos EXCEPT !.len = 4], 1000>> }
    \cup { <<[NoGsub EXCEPT !.len = 64, !.features = fs], NoGpos, 1000>> :
             fs \in {{}, {"smcp"}} }
    \cup { <<NoGsub, [NoGpos EXCEPT !.len = 64], 1000>> }

\* Parse has read head, cmap and the metrics; GSUB and GPOS are next
InitShape ==
    /\ IdleSplit
    /\ IdlePdf
    /\ cmap = <<>>
    /\ maxp = <<>>
    /\ theFont = NoFont
    /\ rune = NoRune
    /\ glyph = NoGlyph
    /\ \E file \in FeatureFiles :
          /\ gsub = file[1]
          /\ gpos = file[2]
          /\ feat = [NoFeatures EXCEPT !.UnitsPerEm = file[3]]
    /\ glyphs \in SeqsUpTo(Glyphs, MaxGlyphs)
    /\ shape = NoCall
    /\ cov = NoCov
    /\ pc = "ParseFeatures"

\* parseGsub, parseGsubSmcp, parseGpos and the return of Parse
ParseFeatures ==
    /\ pc = "ParseFeatures"
    /\ LET r == ParseFeatureTables(gsub, gpos, feat)
       IN  /\ feat' = IF r.err THEN feat ELSE r.f
           /\ pc' = IF r.err THEN "error" ELSE "shaping"
    /\ UNCHANGED <<gsub, gpos, glyphs, shape, cov, cmap, maxp, theFont, rune, glyph,
                   splitVars, pdfVars>>

\* the call op is made on the slice the caller holds
Shaped(op, out, a, b, val) ==
    /\ pc = "shaping"
    /\ shape.n < 2
    /\ glyphs' = out
    /\ shape' = [op |-> op, prevOp |-> shape.op, n |-> shape.n + 1, in |-> glyphs,
                 out |-> out, a |-> a, b |-> b, val |-> val]
    /\ UNCHANGED <<gsub, gpos, feat, cov, cmap, maxp, theFont, rune, glyph,
                   splitVars, pdfVars, pc>>

\* glyphs = f.Ligatures(glyphs)
CallLigatures == Shaped("Ligatures", Ligatures(feat, glyphs), 0, 0, 0)

\* glyphs = f.SmallCaps(glyphs)
CallSmallCaps == Shaped("SmallCaps", SmallCaps(feat, glyphs), 0, 0, 0)

\* f.Kerning(1000, glyphs[i-1], glyphs[i]), as GetWidth calls it
CallKerning ==
    \E i \in 2..Len(glyphs) :
        Shaped("Kerning", glyphs, glyphs[i - 1], glyphs[i],
               Kerning(feat, 1000, glyphs[i - 1], glyphs[i]))

NextShape == ParseFeatures \/ CallLigatures \/ CallSmallCaps \/ CallKerning

(***************************************************************************)
(* parseCoverage (part_000:410-442).  The table is given by its format,    *)
(* whether data ends before the records its count announces, and the       *)
(* records: glyphs for format 1, (firstGlyph, lastGlyph) pairs for format  *)
(* 2.  Index is uint16: g++ wraps at 2^16.                                 *)
(***************************************************************************)
\* the glyph ids the records are made of
CoverageGlyphs == {0, 1, 2 ^ 16 - 2, 2 ^ 16 - 1}

InitCoverage ==
    /\ IdleSplit
    /\ IdlePdf
    /\ cmap = <<>>
    /\ maxp = <<>>
    /\ theFont = NoFont
    /\ rune = NoRune
    /\ glyph = NoGlyph
    /\ gsub = NoGsub
    /\ gpos = NoGpos
    /\ feat = NoFeatures
    /\ glyphs = <<>>
    /\ shape = NoCall
    /\ \E format \in 1..3, short \in BOOLEAN,
          ranges \in SeqsUpTo(CoverageGlyphs \X CoverageGlyphs, MaxRanges) :
          cov = [NoCov EXCEPT !.format = format, !.short = short, !.ranges = ranges]
    /\ pc = "parseCoverage"

\* the steps of parseCoverage leave everything but cov and pc alone
CoverageStep == UNCHANGED <<gsub, gpos, feat, glyphs, shape, cmap, maxp, theFont, rune,
                            glyph, splitVars, pdfVars>>

\* "unexpected end of coverage list", "unsupported coverage format"
\* (part_000:411-413, 418-420, 427-429, 439-440)
CoverageRejected ==
    /\ pc = "parseCoverage"
    /\ cov.short \/ cov.format \notin {1, 2}
    /\ pc' = "error"
    /\ cov' = cov
    /\ CoverageStep

\* format 1: the glyphs as they are listed (part_000:417-425)
CoverageFormat1 ==
    /\ pc = "parseCoverage"
    /\ ~cov.short
    /\ cov.format = 1
    /\ cov' = [cov EXCEPT !.glyphs = Firsts(cov.ranges)]
    /\ pc' = "covered"
    /\ CoverageStep

\* format 2: var glyphs []Index; i := 0 (part_000:426-431)
CoverageFormat2 ==
    /\ pc = "parseCoverage"
    /\ ~cov.short
    /\ cov.format = 2
    /\ cov' = [cov EXCEPT !.i = 1]
    /\ pc' = "ranges"
    /\ CoverageStep

\* i < count: first and last are read, g := first (part_000:431-434)
CoverageRange ==
    /\ pc = "ranges"
    /\ cov.i <= Len(cov.ranges)
    /\ cov' = [cov EXCEPT !.g = cov.ranges[cov.i][1]]
    /\ pc' = "expand"
    /\ CoverageStep

\* g <= last: glyphs = append(glyphs, g); g++ (part_000:434-436)
CoverageAppend ==
    /\ pc = "expand"
    /\ cov.g <= cov.ranges[cov.i][2]
    /\ Len(cov.glyphs) < MaxCoverage
    /\ cov' = [cov EXCEPT !.glyphs = Append(@, cov.g), !.g = (cov.g + 1) % (2 ^ 16)]
    /\ UNCHANGED pc
    /\ CoverageStep

\* g > last: the inner loop is left, i++ (part_000:431, 434)
CoverageRangeEnd ==
    /\ pc = "expand"
    /\ cov.g > cov.ranges[cov.i][2]
    /\ cov' = [cov EXCEPT !.i = @ + 1]
    /\ pc' = "ranges"
    /\ CoverageStep

\* i = count: return glyphs, nil (part_000:438)
CoverageReturn ==
    /\ pc = "ranges"
    /\ cov.i > Len(cov.ranges)
    /\ pc' = "covered"
    /\ cov' = cov
    /\ CoverageStep

NextCoverage ==
    \/ CoverageRejected
    \/ CoverageFormat1
    \/ CoverageFormat2
    \/ CoverageRange
    \/ CoverageAppend
    \/ CoverageRangeEnd
    \/ CoverageReturn

(***************************************************************************)
(* The bfchar groups of the ToUnicode CMap (pdf.go:219-246).  Only the      *)
(* glyphs a rune maps to take part: the loop skips the others.              *)
(***************************************************************************)
\* section = total, capped (pdf.go:229-231)
SectionSize(total) == IF total > 100 THEN 100 ELSE total

\* WriteFontEmbedded has counted the mapped glyphs (pdf.go:219-224) and set
\* section := 0, inside := false
InitBfchar ==
    /\ IdleSplit
    /\ IdleFont
    /\ w = NewPDFWriter
    /\ nops = 0
    /\ firstOp = "none"
    /\ lastOp = "none"
    /\ build = NoBuild
    /\ \E mapped \in 0..MaxMapped : bf = [NoBf EXCEPT !.total = mapped, !.left = mapped]
    /\ pc = "bfchar"

\* one pass of the loop for a mapped glyph (pdf.go:228-240): a new group is
\* announced when section-- goes below 0, then the entry is printed
BfcharEntry ==
    /\ pc = "bfchar"
    /\ bf.left > 0
    /\ LET opens == bf.section - 1 < 0
           size == SectionSize(bf.total)
           groups == IF opens THEN Append(bf.groups, 0) ELSE bf.groups
       IN  bf' = [total |-> IF opens THEN bf.total - size ELSE bf.total,
                  section |-> IF opens THEN size ELSE bf.section - 1,
                  inside |-> IF opens THEN TRUE ELSE bf.inside,
                  left |-> bf.left - 1,
                  announced |-> IF opens THEN Append(bf.announced, size) ELSE bf.announced,
                  groups |-> [groups EXCEPT ![Len(groups)] = @ + 1]]
    /\ UNCHANGED <<w, nops, firstOp, lastOp, build, pc, splitVars, fontVars>>

\* the loop is over: "endbfchar" if a group is open (pdf.go:242-244)
BfcharEnd ==
    /\ pc = "bfchar"
    /\ bf.left = 0
    /\ pc' = "bfdone"
    /\ UNCHANGED <<pdfVars, splitVars, fontVars>>

NextBfchar == BfcharEntry \/ BfcharEnd

vars == <<splitVars, pdfVars, fontVars, pc>>

\* SplitLines is entered on three words with two spaces between them, with
\* MaxWidth 6 pt more than their natural width; the text ends with nothing,
\* a blank line or \break
InitJustify ==
    /\ IdlePdf
    /\ IdleFont
    /\ \E x1 \in {"a", "-"}, x2 \in {"a", "-"}, x3 \in {"a", "-"},
          e \in {<<>>, <<ParagraphBreak>>, <<LineBreak>>} :
          /\ input = <<Text(x1), SpaceBreak, Text(x2), SpaceBreak, Text(x3)>> \o e
          /\ impState = InitialState(NaturalWidth(SubSeq(input, 1, 5), 1, InitialState(0))
                                     + 6 * Pt)
    /\ tokens = input
    /\ origin = Iota(Len(input))
    /\ caller = input
    /\ spare \in SpareCaps
    /\ state = impState
    /\ pos = 1
    /\ page = NoPage
    /\ pc = "SplitLines"

\* SplitLines is entered on a vector that is emitted afterwards
InitPage ==
    /\ IdlePdf
    /\ IdleFont
    /\ input \in SeqsUpTo({Text("a"), SpaceBreak, HyphenBreak, LineBreak, ParagraphBreak,
                           StateAction("column")}, MaxPageTokens)
    /\ tokens = input
    /\ origin = Iota(Len(input))
    /\ caller = input
    /\ spare \in SpareCaps
    /\ impState = InitialState(PageWidth)
    /\ state = impState
    /\ pos = 1
    /\ page = NoPage
    /\ pc = "SplitLines"

\* SplitLines is entered; no writer and no font exist yet
InitSplitLines ==
    /\ InitSplit
    /\ page = NoPage
    /\ IdlePdf
    /\ IdleFont

\* SplitLines on every token vector up to MaxTokens
SpecSplit == InitSplitLines /\ [][NextSplit]_vars

\* SplitLines, then the emission loop over the vector main holds, on every
\* vector of up to MaxPageTokens words, spaces, hyphenation points, breaks
\* and \column
SpecPage == InitPage /\ [][NextJustify]_vars

\* the same for vectors that select fonts: \bf, \rm and \large
\* (main.go:218-231)
InitFonts ==
    /\ IdlePdf
    /\ IdleFont
    /\ input \in SeqsUpTo({Text("a"), LineBreak, SetFont("fontBold", 0),
                           SetFont("fontNormal", 0), SetFont("nil", 14)}, MaxTokens)
    /\ tokens = input
    /\ origin = Iota(Len(input))
    /\ caller = input
    /\ spare \in SpareCaps
    /\ impState = InitialState(PageWidth)
    /\ state = impState
    /\ pos = 1
    /\ page = NoPage
    /\ pc = "SplitLines"

SpecFonts == InitFonts /\ [][NextJustify]_vars

\* SplitLines, then the emission loop, on three words and two spaces
SpecJustify == InitJustify /\ [][NextJustify]_vars

\* free runs of the PDF writer
SpecWriter == InitWriter /\ [][NextWriter]_vars

\* main's document build
SpecBuild == InitBuild /\ [][NextBuild]_vars

\* Parse on a font file, then Index on runes
SpecCmap == InitCmap /\ [][NextCmap]_vars

\* the bfchar loop of WriteFontEmbedded for a font with up to MaxMapped
\* mapped glyphs
SpecBfchar == InitBfchar /\ [][NextBfchar]_vars

\* the GSUB and GPOS steps of Parse, then up to two calls of Ligatures,
\* SmallCaps and Kerning
SpecShape == InitShape /\ [][NextShape]_vars

\* parseCoverage on a coverage table of up to MaxRanges records
SpecCoverage == InitCoverage /\ [][NextCoverage]_vars

(***************************************************************************)
(* Claims about the line breaker.                                          *)
(***************************************************************************)
IsBreak(tok) == tok.type \in {"LineBreak", "ParagraphBreak"}

\* every line of toks that ends before index upto is no wider than the
\* MaxWidth the State has at its end, the State being carried through the
\* tokens by GetWidth from s on (acc: the width of the line so far)
RECURSIVE LinesWithin(_, _, _, _, _)
LinesWithin(toks, k, upto, acc, s) ==
    IF k >= upto \/ k > Len(toks) THEN TRUE
    ELSE LET r == GetWidth(s, toks[k])
         IN  IF IsBreak(toks[k])
             THEN acc <= r.s.MaxWidth /\ LinesWithin(toks, k + 1, upto, 0, r.s)
             ELSE LinesWithin(toks, k + 1, upto, acc + r.w, r.s)

\* C1: every line SplitLines has terminated (the tokens before pos, a
\* spliced-in hyphen included) has a summed GetWidth of at most the
\* MaxWidth in effect for it; only the tail from pos on may be wider.
C1_TerminatedLinesFit == LinesWithin(tokens, 1, pos, 0, impState)

\* SplitLines returned after it broke two lines, one of them at a
\* hyphenation point whose hyphen it spliced in
C1_Witness ==
    /\ pc = "returned"
    /\ \E k \in 2..Len(tokens) : origin[k] = 0 /\ tokens[k - 1] = Text("a")
    /\ Cardinality({k \in 1..(pos - 1) : k <= Len(tokens) /\ tokens[k] = LineBreak}) >= 2

\* C2: the vector is the input with nothing dropped or reordered: each
\* token is the input token it comes from, or, for an input CanBreak, its
\* NoBreak form or a LineBreak; the only inserted tokens are the Before of
\* the CanBreak that became the LineBreak right after it.
C2_BreaksOnlyAtCanBreaks ==
    /\ Len(origin) = Len(tokens)
    /\ LET kept == SelectSeq(origin, LAMBDA o : o # 0)
       IN  kept = Iota(Len(input))
    /\ \A k \in 1..Len(tokens) :
          IF origin[k] = 0
          THEN /\ k < Len(tokens)
               /\ origin[k + 1] # 0
               /\ input[origin[k + 1]].type = "CanBreak"
               /\ tokens[k] = input[origin[k + 1]].Before
               /\ tokens[k + 1] = LineBreak
          ELSE \/ tokens[k] = input[origin[k]]
               \/ /\ input[origin[k]].type = "CanBreak"
                  /\ tokens[k] \in {input[origin[k]].NoBreak, LineBreak}

\* a hyphen was spliced in, a wrapped Space became a LineBreak, and the
\* vector was worked through to its end
C2_Witness ==
    /\ pc = "returned"
    /\ pos > Len(tokens)
    /\ \E k \in 1..Len(tokens) : origin[k] = 0
    /\ \E j \in 1..Len(tokens) :
          origin[j] # 0 /\ input[origin[j]] = SpaceBreak /\ tokens[j] = LineBreak

(***************************************************************************)
(* The PDF writer                                                          *)
(***************************************************************************)
\* the number of bytes in the output before chunk k
OffsetOf(out, k) == out[k].at

\* where in the output the chunks of kind kd are, and the "<id> 0 obj"
\* headers of one id
ChunksOf(out, kd) == {k \in 1..Len(out) : out[k].k = kd}

HeadersOf(out, id) == {k \in ChunksOf(out, "obj") : out[k].id = id}

Last(S) == CHOOSE m \in S : \A y \in S : y <= m

\* C4, the state part: while the sink has not failed, pos is the number of
\* bytes written so far, and the xref entry of every id whose header has
\* been written is the number of bytes written before the first byte of
\* that header (the latest one, if the id was written again); an id not
\* written yet is at 0.
XrefIsHeaderOffset ==
    ~w.err =>
        /\ w.pos = TotalLen(w.out)
        /\ \A id \in 1..Len(w.xref) :
              IF HeadersOf(w.out, id) = {} THEN w.xref[id] = Big(0)
              ELSE w.xref[id] = OffsetOf(w.out, Last(HeadersOf(w.out, id)))

\* C4: for any sequence of PDFWriter operations without a sink error, the
\* xref entry recorded for an object id is the number of bytes emitted
\* before the first byte of its "<id> 0 obj" header, pos is the total
\* number of bytes written so far, and pos never decreases.
C4_XrefIsPos == []XrefIsHeaderOffset /\ [][BigLeq(w.pos, w'.pos)]_vars

\* an object header written after the PDF header and a stream: its entry
\* is neither 0 nor the offset of anything else
C4_Witness ==
    /\ ~w.err
    /\ pc = "writer"
    /\ \E id \in 1..Len(w.xref) :
          /\ HeadersOf(w.out, id) # {}
          /\ BigLeq(Big(20), w.xref[id])
          /\ BigLeq(w.xref[id], w.pos)
          /\ w.xref[id] # w.pos

\* C5: in a complete document build without a sink error, every id
\* reserved with NextID has exactly one object header, written before the
\* xref section; the xref section and /Size declare the number of objects
\* plus one, with one xref line per object and the free entry; and no
\* entry is left at offset 0.
C5_EveryReservedIdWritten ==
    (pc = "done" /\ ~w.err) =>
        LET objects == ChunksOf(w.out, "obj")
            declared == Big(Cardinality(objects) + 1)
        IN  /\ \A id \in 1..Len(w.xref) :
                  /\ Cardinality(HeadersOf(w.out, id)) = 1
                  /\ w.xref[id] # Big(0)
            /\ \A k \in objects : w.out[k].id \in 1..Len(w.xref)
            /\ Cardinality(ChunksOf(w.out, "xref")) = 1
            /\ \A k \in ChunksOf(w.out, "xref") :
                  /\ w.out[k].val = declared
                  /\ \A o \in objects : o < k
            /\ \A k \in ChunksOf(w.out, "trailerdict") : w.out[k].val = declared
            /\ Big(Cardinality(ChunksOf(w.out, "xrefline"))) = declared

\* a build with two embedded fonts got through: 6 + 2 + 2 * 4 objects
C5_Witness ==
    /\ pc = "done"
    /\ ~w.err
    /\ Len(build.Fonts) = 2
    /\ Len(w.xref) = 16

\* C6: when the first operation was WriteHeader and the last WriteFooter
\* and the sink never failed, the output starts with "%PDF-1.4\n", ends
\* with "%%EOF\n", and the startxref value written is the offset of the
\* first byte of the xref section written with it.
C6_HeaderFirstEOFLast ==
    (firstOp = "WriteHeader" /\ lastOp = "WriteFooter" /\ ~w.err) =>
        /\ w.out[1].k = "%PDF-1.4"
        /\ w.out[Len(w.out)].k = "%%EOF"
        /\ w.out[Len(w.out) - 1].k = "startxref"
        /\ ChunksOf(w.out, "xref") # {}
        /\ w.out[Len(w.out) - 1].val = OffsetOf(w.out, Last(ChunksOf(w.out, "xref")))

\* header, one object, footer
C6_Witness ==
    /\ firstOp = "WriteHeader"
    /\ lastOp = "WriteFooter"
    /\ ~w.err
    /\ HeadersOf(w.out, 1) # {}
    /\ Cardinality(ChunksOf(w.out, "xrefline")) = 2

\* C7: every xref line WriteFooter emits, the free entry and the line of
\* each reserved id, is exactly 20 bytes.
C7_XrefLinesAre20Bytes ==
    \A k \in ChunksOf(w.out, "xrefline") : w.out[k].n = Big(20)

(***************************************************************************)
(* The cmap lookup                                                         *)
(***************************************************************************)
\* C8: for every font Parse accepts and every rune r, Index(r) is less
\* than NumGlyphs().
C8_IndexBelowNumGlyphs ==
    (rune # NoRune /\ ~glyph.panic) => glyph.v < NumGlyphs(theFont)

\* the segments are ranges start <= end, in increasing order, no two
\* sharing a code
SortedDisjoint(segs) ==
    /\ \A k \in 1..Len(segs) : segs[k].start <= segs[k].end
    /\ \A k \in 1..(Len(segs) - 1) : segs[k].end < segs[k + 1].start

\* the 0-based segments that contain the code c
Containing(segs, c) ==
    {h \in 0..(Len(segs) - 1) : segs[h + 1].start <= c /\ c <= segs[h + 1].end}

\* C9: over sorted, disjoint segments Index(c) is (c + idDelta[h]) mod 2^16
\* when the segment h containing c has idRangeOffset 0, the 16-bit value at
\* glyphIdArray offset idRangeOffset[h] + 2*(h - nSegments + (c - start[h]))
\* otherwise (a panic when that offset is outside the array), and 0 when
\* no segment contains c.
C9_IndexBySegment ==
    (rune # NoRune /\ SortedDisjoint(theFont.cm)) =>
        LET segs == theFont.cm
            hs == Containing(segs, rune)
        IN  IF hs = {} THEN glyph = Returned(0)
            ELSE \A h \in hs :
                    LET seg == segs[h + 1]
                        at == seg.offset + 2 * (h - Len(segs) + (rune - seg.start))
                    IN  IF seg.offset = 0
                        THEN glyph = Returned((rune + seg.delta) % 65536)
                        ELSE IF 0 <= at /\ at + 2 <= Len(theFont.cmapIndexes)
                        THEN glyph = Returned(theFont.cmapIndexes[at + 1] * 256
                                              + theFont.cmapIndexes[at + 2])
                        ELSE glyph.panic

\* two segments; the rune is in the second, which goes through the
\* glyphIdArray, and the first has a delta that wraps around 2^16
C9_Witness ==
    /\ rune = 65535
    /\ Len(theFont.cm) = 2
    /\ SortedDisjoint(theFont.cm)
    /\ theFont.cm[1].delta = 65534
    /\ Containing(theFont.cm, rune) = {1}
    /\ theFont.cm[2].offset = 4
    /\ glyph = Returned(1)

\* C10: after a successful Parse the cmap segments are sorted by start and
\* pairwise disjoint, and the final segment ends at 0xFFFF.
C10_SegmentsSortedTo0xFFFF ==
    pc = "parsed" =>
        /\ SortedDisjoint(theFont.cm)
        /\ theFont.cm # <<>>
        /\ theFont.cm[Len(theFont.cm)].end = 65535

\* C11: Ligatures is idempotent: a second call on the result of a first call
\* returns that result unchanged.
C11_LigaturesIdempotent ==
    (shape.op = "Ligatures" /\ shape.prevOp = "Ligatures") => shape.out = shape.in

\* the entries of smcpBefore that hold the glyph g
SmcpEntries(g) == {j \in 1..Len(feat.smcpBefore) : feat.smcpBefore[j] = g}

\* C12: SmallCaps keeps the length and substitutes each glyph at most once:
\* the output glyph is after[j] for an entry j with before[j] equal to the
\* input glyph, and the input glyph when there is no such entry.
C12_SmallCapsOneSubstitution ==
    shape.op = "SmallCaps" =>
        /\ Len(shape.out) = Len(shape.in)
        /\ \A i \in 1..Len(shape.in) :
              IF SmcpEntries(shape.in[i]) = {}
              THEN shape.out[i] = shape.in[i]
              ELSE \E j \in SmcpEntries(shape.in[i]) : shape.out[i] = feat.smcpAfter[j]

\* the sum of the values of the records rs
RECURSIVE SumHoriz(_)
SumHoriz(rs) ==
    IF rs = {} THEN 0
    ELSE LET r == CHOOSE r \in rs : TRUE IN r.rec.Horiz + SumHoriz(rs \ {r})

\* the pair kerning records for (a, b), each with its place in f.kern
PairRecords(a, b) ==
    {[at |-> i, rec |-> feat.kern[i]] : i \in {i \in 1..Len(feat.kern) :
        feat.kern[i].First = a /\ feat.kern[i].Second = b}}

\* the class kerning value for (a, b), 0 without a class table or with a or
\* b outside the class arrays
ClassValue(a, b) ==
    IF feat.classKern.nil THEN 0
    ELSE LET c == feat.classKern
         IN  IF a + 1 \in DOMAIN c.classA /\ b + 1 \in DOMAIN c.classB
             THEN c.table[c.classA[a + 1] + c.classB[b + 1] * c.countA + 1]
             ELSE 0

\* C13: Kerning(scale, a, b) is Scale of the pair kerning value for (a, b)
\* plus the class kerning value table[classA[a] + classB[b]*countA], each 0
\* when absent; it is 0 when no rule exists for the pair.  Scale is the
\* quotient by UnitsPerEm rounded toward zero.
C13_KerningIsPairPlusClass ==
    shape.op = "Kerning" =>
        LET sum == SumHoriz(PairRecords(shape.a, shape.b)) + ClassValue(shape.a, shape.b)
            scaled == sum * 1000
            q == shape.val
        IN  /\ \/ scaled >= 0 /\ q * feat.UnitsPerEm <= scaled
                               /\ scaled < (q + 1) * feat.UnitsPerEm
               \/ scaled < 0 /\ (q - 1) * feat.UnitsPerEm < scaled
                              /\ scaled <= q * feat.UnitsPerEm
            /\ (PairRecords(shape.a, shape.b) = {} /\ ClassValue(shape.a, shape.b) = 0)
                  => shape.val = 0

\* a pair with a pair record and a class value whose negative sum does not
\* divide evenly
C13_Witness ==
    /\ shape.op = "Kerning"
    /\ PairRecords(shape.a, shape.b) # {}
    /\ ClassValue(shape.a, shape.b) < 0
    /\ (SumHoriz(PairRecords(shape.a, shape.b)) + ClassValue(shape.a, shape.b)) * 1000
          % feat.UnitsPerEm # 0
    /\ shape.val < 0

\* C14: Parse returns a Font or a FontError and never faults with a read out
\* of range: Parse does not end in a panic.
C14_ParseNeverFaults == ~(pc = "panic" /\ rune = NoRune)

\* C15: a font without GSUB and GPOS parses without error, and on it
\* Ligatures and SmallCaps return their input and Kerning returns 0.
C15_AbsentTablesDisableFeatures ==
    (gsub.len = 0 /\ gpos.len = 0) =>
        /\ pc # "error"
        /\ shape.op \in {"Ligatures", "SmallCaps"} => shape.out = shape.in
        /\ shape.op = "Kerning" => shape.val = 0

\* Ligatures, then Kerning on a font without the two tables
C15_Witness ==
    /\ gsub.len = 0
    /\ gpos.len = 0
    /\ pc = "shaping"
    /\ shape.prevOp = "Ligatures"
    /\ shape.op = "Kerning"
    /\ Len(shape.in) = 3

\* the "<id> 0 obj" headers that a step appends to the output
NewHeaders == {k \in ChunksOf(w'.out, "obj") : k > Len(w.out)}

C17_GroupsAtMost100 == \A g \in 1..Len(bf.groups) : bf.groups[g] <= 100

\* the items of the content stream that follow a "space" item directly
AfterSpaces == {k + 1 : k \in {j \in 1..Len(page.out) : page.out[j].k = "space"}}

\* -round(3/size*1000) for the size of main's State
RoundedThree == 0 - ((6000 + InitialState(0).Size) \div (2 * InitialState(0).Size))

\* C18: three words with two spaces between them and MaxWidth 6 pt more
\* than their natural width stay on one line, and in the TJ array each of
\* the two spaces is followed by the adjustment -round(3/size*1000).
C18_ThreeWordsJustified ==
    pc = "emitted" =>
        /\ \A k \in 1..5 : caller[k].type # "LineBreak"
        /\ Cardinality(AfterSpaces) = 2
        /\ \A k \in AfterSpaces :
              /\ k <= Len(page.out)
              /\ page.out[k] = [k |-> "adjust", v |-> RoundedThree]

\* the CanBreaks the look-ahead from i passes before it stops, each with the
\* width up to and including it plus the width of its Before, and MaxWidth
RECURSIVE Passed(_, _, _, _)
Passed(toks, i, width, s) ==
    IF i > Len(toks) THEN {}
    ELSE LET tok == toks[i]
             r == GetWidth(IF tok.type = "StateAction" THEN ApplyAction(tok.a, s) ELSE s, tok)
         IN  IF width + r.w > r.s.MaxWidth \/ tok.type \in {"LineBreak", "ParagraphBreak"}
             THEN {}
             ELSE IF tok.type = "CanBreak"
             THEN LET b == GetWidth(r.s, tok.Before)
                  IN  {[at |-> i, sum |-> width + r.w + b.w, max |-> b.s.MaxWidth]}
                      \cup Passed(toks, i + 1, width + r.w, b.s)
             ELSE Passed(toks, i + 1, width + r.w, r.s)

\* C19: the look-ahead records a CanBreak as break candidate exactly when the
\* width up to it plus the width of its Before is at most MaxWidth; an exact
\* fit is accepted.  A recorded candidate is given up only for a later one or
\* for an explicit break.
C19_CandidateIffFits ==
    (pc = "SplitLines" /\ pos <= Len(tokens)) =>
        LET la == LookAhead(tokens, pos, 0, NoBreakFound, state)
        IN  \A c \in Passed(tokens, pos, 0, state) :
                /\ c.sum <= c.max => la.breakPos >= c.at
                /\ (la.stop = "canbreak" /\ la.breakPos = c.at) => c.sum <= c.max

\* the tokens from the line start on are the tokens of the input, in order
\* and up to the last one
TailUntouched ==
    \A k \in pos..Len(tokens) :
        /\ origin[k] = Len(input) - (Len(tokens) - k)
        /\ tokens[k] = input[origin[k]]

\* C20: when the look-ahead from a line start finds no candidate, SplitLines
\* returns without an error, the tokens from that line start to the end are
\* as they were in the input, and the return changes no token, so the lines
\* broken before keep their breaks.
C20_NoBreakLeavesRestUntouched ==
    /\ [](pc \in {"SplitLines", "returned"})
    /\ []((pc = "returned" /\ pos <= Len(tokens)) => TailUntouched)
    /\ [][pc' = "returned" => (tokens' = tokens /\ pos' = pos)]_vars

\* a line was broken, then the look-ahead found no candidate on a rest
\* that holds a CanBreak
C20_Witness ==
    /\ pc = "returned"
    /\ 1 < pos
    /\ pos <= Len(tokens)
    /\ tokens[pos - 1].type = "LineBreak"
    /\ input[origin[pos - 1]].type = "CanBreak"
    /\ \E k \in pos..Len(tokens) : tokens[k].type = "CanBreak"

\* C21: when the line is broken at the CanBreak at index b, every CanBreak
\* from the line start up to b becomes its NoBreak form, the Before of the
\* chosen CanBreak (if it has one) is inserted right before position b, the
\* chosen CanBreak becomes a LineBreak, the tokens before the line and after
\* b are kept, and the next line starts at the token that followed b.
C21_BreakAtCanBreak ==
    [][(pc = "SplitLines" /\ pos' # pos) =>
          LET grow == Len(tokens') - Len(tokens)
              b == pos' - 1 - grow
          IN  /\ b \in pos..Len(tokens)
              /\ tokens[b].type = "CanBreak" =>
                /\ grow = IF tokens[b].Before # Nil THEN 1 ELSE 0
                /\ \A k \in 1..(pos - 1) : tokens'[k] = tokens[k]
                /\ \A k \in pos..(b - 1) :
                      tokens'[k] = IF tokens[k].type = "CanBreak"
                                   THEN tokens[k].NoBreak ELSE tokens[k]
                /\ grow = 1 => tokens'[b] = tokens[b].Before
                /\ tokens'[b + grow] = LineBreak
                /\ \A k \in (b + 1)..Len(tokens) : tokens'[k + grow] = tokens[k]
                /\ pos' = b + grow + 1]_vars

\* a line broken at a hyphenation point behind a wrapped Space: the Space
\* is plain, the hyphen and the LineBreak follow, and a token is left for
\* the next line
C21_Witness ==
    /\ pc = "SplitLines"
    /\ \E k \in 3..Len(tokens) :
          /\ pos = k + 1
          /\ pos <= Len(tokens)
          /\ tokens[k] = LineBreak
          /\ origin[k - 1] = 0
          /\ tokens[k - 1] = Text("-")
          /\ \E j \in 1..(k - 2) : tokens[j] = Space /\ input[origin[j]] = SpaceBreak

\* C22: when SplitLines has returned, the vector the caller holds is the
\* vector that was broken: it shows every spliced-in hyphen, every inserted
\* LineBreak and every token up to the last, none lost or left unbroken.
C22_CallerHoldsBrokenVector == pc = "returned" => caller = tokens

C25_LookAheadEqualsReplay ==
    [][(pc = "SplitLines" /\ pos' # pos) =>
          LookAhead(tokens, pos, 0, NoBreakFound, state).s = state']_vars

\* whether the look-ahead from i reaches the end of the vector, no token
\* overflowing the line
RECURSIVE AllFit(_, _, _, _)
AllFit(toks, i, width, s) ==
    IF i > Len(toks) THEN TRUE
    ELSE LET tok == toks[i]
             r == GetWidth(IF tok.type = "StateAction" THEN ApplyAction(tok.a, s) ELSE s, tok)
         IN  /\ ~Overflows(width, r.w, r.s.MaxWidth)
             /\ AllFit(toks, i + 1, width + r.w, r.s)

\* C26: a CanBreak becomes a LineBreak only when the look-ahead was stopped
\* by an overflow: a pass over a rest without LineBreak and ParagraphBreak
\* whose tokens all fit the line inserts no LineBreak.
C26_BreakOnlyOnOverflow ==
    [][(/\ pc = "SplitLines"
        /\ pos <= Len(tokens)
        /\ \A k \in pos..Len(tokens) : tokens[k].type \notin {"LineBreak", "ParagraphBreak"}
        /\ AllFit(tokens, pos, 0, state))
          => tokens' = tokens /\ pos' = pos]_vars

(***************************************************************************)
(* Claims about the emission loop.                                         *)
(***************************************************************************)
\* the State the emission has before the token at index k of toks, s being
\* the State before the token at index i: font, size, small caps and
\* MaxWidth as the SetFont and StateAction tokens in between leave them
RECURSIVE StateBefore(_, _, _, _)
StateBefore(toks, i, k, s) ==
    IF i >= k THEN s ELSE StateBefore(toks, i + 1, k, GetWidth(s, toks[i]).s)

\* the line of toks that holds index i: where it starts, and the index of
\* the break that ends it (0: the vector ends first)
LineStart(toks, i) ==
    LET before == {j \in 1..(i - 1) : IsBreak(toks[j])}
    IN  IF before = {} THEN 1 ELSE 1 + CHOOSE j \in before : \A m \in before : m <= j

LineEnd(toks, i) ==
    LET after == {j \in i..Len(toks) : IsBreak(toks[j])}
    IN  IF after = {} THEN 0 ELSE CHOOSE j \in after : \A m \in after : j <= m

\* the Space tokens among toks[from..to]
SpacesIn(toks, from, to) == {j \in from..to : toks[j].type = "Space"}

\* what is written behind the Space just emitted, and what its line leaves
\* over: extra is MaxWidth at the LineBreak minus the natural width of the
\* line, unit one thousandth of the font size times the Spaces of the line
\* (justified: the line ends in a LineBreak)
AtSpace ==
    LET i == page.pos - 1
        from == LineStart(caller, i)
        to == LineEnd(caller, i)
        s0 == StateBefore(caller, 1, from, InitialState(PageWidth))
        justified == to # 0 /\ caller[to].type = "LineBreak"
    IN  [last |-> page.out[Len(page.out)],
         justified |-> justified,
         extra |-> IF justified
                   THEN StateBefore(caller, from, to, s0).MaxWidth
                        - NaturalWidth(SubSeq(caller, from, to - 1), 1, s0)
                   ELSE 0,
         unit |-> Cardinality(SpacesIn(caller, from, IF justified THEN to ELSE Len(caller)))
                  * StateBefore(caller, from, i, s0).Size * (Pt \div 1000)]

\* the emission loop has just written a Space
SpaceEmitted ==
    /\ pc = "returned"
    /\ page.pos > 1
    /\ caller[page.pos - 1].type = "Space"

\* the adjustment item is the extra space in whole units, rounded toward 0
AdjustedBy(item, extra, unit) ==
    /\ item.k = "adjust"
    /\ (0 - item.v) * unit <= extra
    /\ extra < (1 - item.v) * unit

C27_TfNamesCurrentFont ==
    pc = "emitted" =>
        /\ \A k \in 1..Len(page.Tf) : Resource(page.Fonts, page.Tf[k].id) = page.Tf[k].font
        /\ \A i, j \in 1..Len(page.Fonts) : page.Fonts[i] = page.Fonts[j] => i = j

\* the sum of a sequence of numbers
RECURSIVE SumOf(_)
SumOf(q) == IF q = <<>> THEN 0 ELSE q[1] + SumOf(Tail(q))

\* C28: when the ToUnicode CMap is written, the count announced in each
\* "<n> beginbfchar" is the number of entries of its group, and the counts
\* announced sum to the number of mapped glyphs, each of which has got its
\* entry.
C28_AnnouncedIsWritten ==
    pc = "bfdone" =>
        /\ \A g \in 1..Len(bf.groups) : bf.announced[g] = bf.groups[g]
        /\ SumOf(bf.announced) = SumOf(bf.groups)

\* C30: a well-formed GSUB whose language system lists no liga feature, and
\* a well-formed GPOS whose language system lists no kern feature, are
\* parsed without error, as a GSUB without smcp is: Parse returns the Font
\* with the feature disabled.
C30_MissingFeatureIsNoError ==
    \/ gsub.len >= 10 /\ "liga" \notin gsub.features
    \/ gsub.len >= 10 /\ "smcp" \notin gsub.features
    \/ gpos.len >= 10 /\ "kern" \notin gpos.features
    => pc # "error"

\* the number of glyphs from first to last, both included
RangeSize(rg) == IF rg[1] <= rg[2] THEN rg[2] - rg[1] + 1 ELSE 0

\* the glyphs the ranges up to the n-th hold together
RECURSIVE Expected(_, _)
Expected(ranges, n) == IF n = 0 THEN 0 ELSE Expected(ranges, n - 1) + RangeSize(ranges[n])

\* C29: parseCoverage terminates on a format 2 table: what is still to be
\* appended, the glyphs of all ranges less the glyphs appended, never goes
\* below zero, so the expansion of a range ends at its lastGlyph, 0xFFFF
\* included.
C29_CoverageTerminates ==
    cov.format = 2 => Len(cov.glyphs) <= Expected(cov.ranges, Len(cov.ranges))

====
